---- MODULE Spec2Model ----
(***************************************************************************)
(* Tiled object-detection pipeline of backend/detection: run_inference     *)
(* (tile decision, tile grid, detector calls, coordinate translation,     *)
(* class-wise NMS, packaging) and the two HTTP views that call it.         *)
(* SpecModel covers the detector cache of _load_model and the YoloModel    *)
(* table edited by save() and the admin action make_active.                *)
(*                                                                         *)
(* Numbers.  Tile bounds, W, H, tile_size and step are Python ints and are *)
(* modelled as integers (pixels).  Box coordinates are Python floats; a    *)
(* float is modelled as an integer count of 2^-SubBits pixel units that    *)
(* has at most MantBits significant bits, and every float addition or      *)
(* subtraction rounds its exact result to the nearest such value (ties to  *)
(* even), as IEEE-754 does with 53 bits.  overlap and nms_iou are drawn    *)
(* from dyadic rationals <<num, den>>, for which 1.0 - overlap and its     *)
(* product with a small int are exact in binary floating point.            *)
(***************************************************************************)
EXTENDS Integers, Sequences, FiniteSets, TLC

\* ------------------------------------------------------------ bounds
MaxDets == 3        \* longest detection list handed to _nms_classwise alone
MaxSide == 3        \* largest image width / height, in pixels
MaxTileSize == 3    \* largest tile_size
MaxFiles == 2       \* most images in one batch request
MaxFuel == 2        \* most detections the detector returns during one request
MantBits == 3       \* significant bits of a modelled float (53 in CPython)
SubBits == 2        \* a float's finest unit is 2^-SubBits pixel
MaxRows == 2        \* rows of the YoloModel table

\* ------------------------------------------------------------ arithmetic
Max(a, b) == IF a >= b THEN a ELSE b
Min(a, b) == IF a <= b THEN a ELSE b
Abs(n) == IF n >= 0 THEN n ELSE -n

RECURSIVE Pow2(_)
Pow2(n) == IF n <= 0 THEN 1 ELSE 2 * Pow2(n - 1)

\* units of one pixel: an int pixel count converted to float
Unit == Pow2(SubBits)

\* number of low bits a magnitude loses to fit MantBits significant bits
RECURSIVE Shift(_)
Shift(n) == IF n < Pow2(MantBits) THEN 0 ELSE 1 + Shift(n \div 2)

\* round-to-nearest, ties-to-even, to MantBits significant bits
FRound(n) ==
  LET m == Abs(n)
      e == Shift(m)
      p == Pow2(e)
      q == m \div p
      r == m % p
      up == (2 * r > p) \/ (2 * r = p /\ q % 2 = 1)
      v == (IF up THEN q + 1 ELSE q) * p
  IN IF n >= 0 THEN v ELSE -v

Representable(n) == FRound(n) = n

FAddExact(a, b) == a + b
\* Python float a + b
FAdd(a, b) == FRound(a + b)
\* Python float a - b
FSub(a, b) == FRound(a - b)

\* int(x) of the float num/den: truncation toward zero
IntTrunc(num, den) == IF num >= 0 THEN num \div den ELSE -((-num) \div den)

\* round(x) of the float num/den: nearest, ties to even (Python 3)
PyRound(num, den) ==
  LET q == num \div den
      r == num % den
  IN IF 2 * r > den \/ (2 * r = den /\ q % 2 = 1) THEN q + 1 ELSE q

\* rationals <<num, den>>, den > 0
RatLT(r, s) == r[1] * s[2] < s[1] * r[2]
RatGE(r, s) == ~RatLT(r, s)

\* ------------------------------------------------------------ geometry & NMS
\* _iou_xyxy: the value returned, as a rational <<num, den>>
IouXyxy(a, b) ==
  LET inter_x1 == Max(a[1], b[1])
      inter_y1 == Max(a[2], b[2])
      inter_x2 == Min(a[3], b[3])
      inter_y2 == Min(a[4], b[4])
      iw == Max(0, inter_x2 - inter_x1)
      ih == Max(0, inter_y2 - inter_y1)
      inter == iw * ih
      area_a == Max(0, a[3] - a[1]) * Max(0, a[4] - a[2])
      area_b == Max(0, b[3] - b[1]) * Max(0, b[4] - b[2])
      denom == area_a + area_b - inter
  IN IF inter <= 0 THEN <<0, 1>>
     ELSE IF denom > 0 THEN <<inter, denom>> ELSE <<0, 1>>

\* by_cls' keys in insertion order: the classes in order of first appearance
RECURSIVE ClassOrder(_, _)
ClassOrder(dets, seen) ==
  IF dets = <<>> THEN <<>>
  ELSE IF Head(dets).class_name \in seen THEN ClassOrder(Tail(dets), seen)
  ELSE <<Head(dets).class_name>>
       \o ClassOrder(Tail(dets), seen \cup {Head(dets).class_name})

\* by_cls[c]: the indices of class c, ascending
IdxsOfClass(dets, c) ==
  SelectSeq([i \in 1..Len(dets) |-> i], LAMBDA i: dets[i].class_name = c)

\* where sorted(..., reverse=True) puts index i among the already sorted s:
\* after every index whose confidence is >= its own (the sort is stable)
RECURSIVE InsertByConf(_, _, _)
InsertByConf(dets, s, i) ==
  IF s = <<>> THEN <<i>>
  ELSE IF dets[Head(s)].confidence >= dets[i].confidence
       THEN <<Head(s)>> \o InsertByConf(dets, Tail(s), i)
       ELSE <<i>> \o s

\* the sort left out: the indices in input order
Unsorted(dets, idxs) == idxs

\* sorted(idxs, key=confidence, reverse=True)
RECURSIVE SortByConf(_, _)
SortByConf(dets, idxs) ==
  IF idxs = <<>> THEN <<>>
  ELSE InsertByConf(dets, SortByConf(dets, SubSeq(idxs, 1, Len(idxs) - 1)),
                    idxs[Len(idxs)])

\* a filter that lets a box at exactly the threshold through
SurvivesAtThreshold(dets, i, j, iou_th) ==
  ~RatLT(iou_th, IouXyxy(dets[i].bbox, dets[j].bbox))

\* the list comprehension of line 110: j survives i when IoU < iou_th
Survives(dets, i, j, iou_th) ==
  RatLT(IouXyxy(dets[i].bbox, dets[j].bbox), iou_th)

\* the while loop: pop the head, keep it, filter the rest
RECURSIVE Greedy(_, _, _)
Greedy(dets, idxs, iou_th) ==
  IF idxs = <<>> THEN <<>>
  ELSE LET i == Head(idxs)
           rest == SelectSeq(Tail(idxs), LAMBDA j: Survives(dets, i, j, iou_th))
       IN <<i>> \o Greedy(dets, rest, iou_th)

\* line 104
SortedIdxs(dets, idxs) == SortByConf(dets, idxs)

\* the kept indices of one class
KeepOfClass(dets, c, iou_th) ==
  Greedy(dets, SortedIdxs(dets, IdxsOfClass(dets, c)), iou_th)

RECURSIVE KeepAll(_, _, _)
KeepAll(dets, classes, iou_th) ==
  IF classes = <<>> THEN <<>>
  ELSE KeepOfClass(dets, Head(classes), iou_th)
       \o KeepAll(dets, Tail(classes), iou_th)

\* the indices, into dets, of the detections _nms_classwise returns, in order
NmsKeep(dets, iou_th) == KeepAll(dets, ClassOrder(dets, {}), iou_th)

\* _nms_classwise
NmsClasswise(dets, iou_th) ==
  LET keep == NmsKeep(dets, iou_th)
  IN [k \in 1..Len(keep) |-> dets[keep[k]]]


\* ------------------------------------------------------------ inputs
\* values of the tile argument: the query string the views pass on, or a
\* non-string (int / bool) given by a direct caller; n is its truth value
StrTile(s) == [kind |-> "str", s |-> s, n |-> 0]
IntTile(n) == [kind |-> "int", s |-> "", n |-> n]
TileValues ==
  {StrTile(s) : s \in {"auto", "AUTO", "1", "true", "YES", "on", "off"}}
  \cup {IntTile(1), IntTile(0)}

\* str.lower() on the strings above
Lower(s) ==
  CASE s = "AUTO" -> "auto"
    [] s = "YES" -> "yes"
    [] OTHER -> s

\* overlap and nms_iou values, <<num, den>>
Overlaps == {<<0, 1>>, <<1, 4>>, <<1, 2>>, <<3, 4>>, <<1, 1>>}
Thresholds == {<<0, 1>>, <<1, 3>>, <<1, 2>>, <<1, 1>>}
TileSizes == 0..MaxTileSize
Sides == 1..MaxSide

\* uploaded images, by their decoded size <<width, height>>
Images == Sides \X Sides
\* the images of the requests that exercise the views
ViewImages == {<<1, 1>>, <<3, 1>>, <<3, 2>>}

Classes == {"0", "1"}
Confidences == {80, 90}     \* percent

\* what the detector may report for a w x h pixel image: local float boxes
LocalBoxes(w, h) == {<<0, 0, w * Unit, h * Unit>>, <<1, 1, w * Unit, h * Unit>>}
LocalDets(w, h) ==
  [class_name : Classes, confidence : {90}, bbox : LocalBoxes(w, h)]

\* _boxes_from_result(_predict_on_pil(...)): the lists the detector may return
DetectorOutputs(w, h, n) ==
  UNION {[1..k -> LocalDets(w, h)] : k \in 0..Min(n, 1)}

\* detection lists given to _nms_classwise on its own
NmsBoxes == {<<0, 0, 2, 2>>, <<1, 0, 3, 2>>, <<0, 0, 4, 2>>, <<1, 1, 1, 2>>}
NmsDets == [class_name : Classes, confidence : Confidences, bbox : NmsBoxes]
NmsInputs == UNION {[1..k -> NmsDets] : k \in 0..MaxDets}

\* ------------------------------------------------------------ run_inference
\* the auto rule with >= for >
TileFlagAtSize(tile, W, H, tile_size) ==
  IF tile.kind = "str"
  THEN LET t == Lower(tile.s)
       IN (t = "auto" /\ Max(W, H) >= tile_size) \/ t \in {"1", "true", "yes"}
  ELSE tile.n # 0

\* tile_flag of lines 227-231
TileFlag(tile, W, H, tile_size) ==
  IF tile.kind = "str"
  THEN LET t == Lower(tile.s)
       IN (t = "auto" /\ Max(W, H) > tile_size) \/ t \in {"1", "true", "yes"}
  ELSE tile.n # 0

\* the step with 1.0 + overlap for 1.0 - overlap
StepWidened(tile_size, overlap) ==
  Max(1, IntTrunc(tile_size * (overlap[2] + overlap[1]), overlap[2]))

\* the step with round() for int()
StepRounded(tile_size, overlap) ==
  Max(1, PyRound(tile_size * (overlap[2] - overlap[1]), overlap[2]))

\* step of line 248: max(1, int(tile_size * (1.0 - overlap)))
Step(tile_size, overlap) ==
  Max(1, IntTrunc(tile_size * (overlap[2] - overlap[1]), overlap[2]))

\* right and bottom of lines 253-254, as <<left, top, right, bottom>>
TileBox(left, top, tile_size, W, H) ==
  <<left, top, Min(left + tile_size, W), Min(top + tile_size, H)>>

\* the test of line 255
Degenerate(box) == box[3] <= box[1] \/ box[4] <= box[2]

\* the next (top, left) of the two range() loops; top >= H ends them
NextPos(top, left, step, W) ==
  IF left + step < W THEN <<top, left + step>> ELSE <<top + step, 0>>

\* the two offsets exchanged
TranslateSwapped(d, left, top) ==
  [d EXCEPT !.bbox = <<FAdd(d.bbox[1], top * Unit), FAdd(d.bbox[2], left * Unit),
                       FAdd(d.bbox[3], top * Unit), FAdd(d.bbox[4], left * Unit)>>]

\* line 263: the box moved by the tile's origin (float + int)
Translate(d, left, top) ==
  [d EXCEPT !.bbox = <<FAdd(d.bbox[1], left * Unit), FAdd(d.bbox[2], top * Unit),
                       FAdd(d.bbox[3], left * Unit), FAdd(d.bbox[4], top * Unit)>>]

TranslateAll(dets, left, top) ==
  [i \in 1..Len(dets) |-> Translate(dets[i], left, top)]

\* ------------------------------------------------------------ _package
EmptyDict == [c \in {} |-> 0]
Get(d, k) == IF k \in DOMAIN d THEN d[k] ELSE 0
Put(d, k, v) == [x \in DOMAIN d \cup {k} |-> IF x = k THEN v ELSE d[x]]

\* the out_dets.append of lines 202-209
Expand(d) ==
  [class_name |-> d.class_name, confidence |-> d.confidence,
   bbox |-> [x1 |-> d.bbox[1], y1 |-> d.bbox[2], x2 |-> d.bbox[3], y2 |-> d.bbox[4],
             width |-> FSub(d.bbox[3], d.bbox[1]),
             height |-> FSub(d.bbox[4], d.bbox[2])]]

\* counts[c] = 1 for counts[c] = counts.get(c, 0) + 1
RECURSIVE CountLoopOverwrite(_, _)
CountLoopOverwrite(dets, counts) ==
  IF dets = <<>> THEN counts
  ELSE CountLoopOverwrite(Tail(dets), Put(counts, Head(dets).class_name, 1))

\* line 210, over the loop of line 200
RECURSIVE CountLoop(_, _)
CountLoop(dets, counts) ==
  IF dets = <<>> THEN counts
  ELSE CountLoop(Tail(dets),
                 Put(counts, Head(dets).class_name,
                     Get(counts, Head(dets).class_name) + 1))

\* sum(counts.values())
RECURSIVE SumValues(_)
SumValues(d) ==
  IF DOMAIN d = {} THEN 0
  ELSE LET k == CHOOSE x \in DOMAIN d : TRUE
       IN d[k] + SumValues([x \in DOMAIN d \ {k} |-> d[x]])

\* the payload of lines 212-218 (inference_ms and image_b64 left out)
Package(dets, W, H) ==
  LET counts == CountLoop(dets, EmptyDict)
  IN [image |-> [width |-> W, height |-> H],
      detections |-> [i \in 1..Len(dets) |-> Expand(dets[i])],
      counts |-> counts,
      total |-> SumValues(counts)]

\* ------------------------------------------------------------ utils
\* merge_counts
MergeCounts(dst, src) ==
  [k \in DOMAIN dst \cup DOMAIN src |-> Get(dst, k) + Get(src, k)]

\* ------------------------------------------------------------ state
VARIABLES
  view,               \* "detect" (DetectView) or "batch" (BatchDetectView)
  tile, tile_size, overlap, nms_iou,   \* the request's tiling knobs
  files,              \* the uploaded images not yet processed, each <<width, height>>
  items, collection_counts, total_objects,   \* BatchDetectView.post locals
  response,           \* the view's Response, None until it is returned
  pc,                 \* where the request is
  W, H,               \* the current image's size
  step, top, left,    \* the tiled loops
  cur,                \* the tile just cropped: <<left, top, right, bottom>>
  scheduled,          \* the tile bounds computed so far for this image
  calls,              \* the detector calls made for this image: what was passed
                      \* (a crop or the whole image, its bounds), whether it returned
  raw,                \* per entry of all_dets: what the detector gave, and where
  all_dets, merged, result,   \* run_inference locals
  fuel                \* detections the detector may still return

VARIABLES
  yolo_path,          \* settings.YOLO_MODEL_PATH, "" when not configured
  model,              \* detector._MODEL: None or the loaded handle
  model_weights,      \* detector._MODEL_WEIGHTS
  rows,               \* the YoloModel table: is_active of each row, by pk
  saves,              \* the save() calls in progress, one per thread
  returned,           \* what the latest _load_model call returned, None if it
                      \* raised or the active model has changed since
  cached_before,      \* the handle that was cached when the active model last
                      \* changed, None if there was none
  last_true           \* pk of the row whose save() with is_active = True
                      \* completed last and which was not saved inactive
                      \* since; 0 if none

registry == <<yolo_path, model, model_weights, rows, saves, returned,
              cached_before, last_true>>

vars == <<view, tile, tile_size, overlap, nms_iou, files, items,
          collection_counts, total_objects, response, pc, W, H, step, top, left,
          cur, scheduled, calls, raw, all_dets, merged, result, fuel, registry>>

request == <<view, tile, tile_size, overlap, nms_iou>>
batch == <<items, collection_counts, total_objects>>

None == [none |-> TRUE]
NoBox == <<0, 0, 0, 0>>

\* ------------------------------------------------------------ model registry
RowIds == 1..MaxRows
Threads == {1, 2}

\* weights_path of a row, and the path settings.py configures by default
RowWeights(pk) == <<"row", pk>>
DefaultWeights == <<"settings", 0>>
NoWeights == <<"", 0>>

\* YOLO(weights): the handle of the loaded weights
Handle(weights) == [weights |-> weights]

\* what _load_model returns when it does not raise (lines 30-31, 43-46)
Loaded(m, path) == IF m # None THEN m ELSE Handle(path)

\* _MODEL_WEIGHTS after that call
LoadedWeights(m, mw, path) == IF m # None THEN mw ELSE path

\* a thread that is not inside save()
IdleSave == [pc |-> "idle", pk |-> 0, is_active |-> FALSE]

\* YoloModel.objects.filter(is_active=True).first() under Meta.ordering, rows
\* of equal rank taken by pk; 0 when there is none
ActiveRows(t) == {pk \in RowIds : t[pk]}
FirstActive(t) ==
  IF ActiveRows(t) = {} THEN 0
  ELSE CHOOSE pk \in ActiveRows(t) : \A q \in ActiveRows(t) : pk <= q

\* the weights CurrentModelView.get reports as active
ActiveWeights(t, path) ==
  IF FirstActive(t) # 0 THEN RowWeights(FirstActive(t)) ELSE path

\* queryset.first() of the admin action: active rows first, then by pk
First(t, qs) ==
  IF qs \cap ActiveRows(t) # {}
  THEN CHOOSE pk \in qs \cap ActiveRows(t) : \A q \in qs \cap ActiveRows(t) : pk <= q
  ELSE CHOOSE pk \in qs : \A q \in qs : pk <= q

\* the process of a request: weights configured, nothing loaded, an empty
\* table, no save() under way
RegistryIdle ==
  /\ yolo_path = DefaultWeights
  /\ model = None /\ model_weights = None
  /\ rows = [pk \in RowIds |-> FALSE]
  /\ saves = [t \in Threads |-> IdleSave]
  /\ returned = None /\ cached_before = None /\ last_true = 0


\* the locals of a run_inference frame before the call / after it is gone
NoFrame ==
  /\ W' = 0 /\ H' = 0 /\ step' = 0 /\ top' = 0 /\ left' = 0 /\ cur' = NoBox
  /\ scheduled' = <<>> /\ calls' = <<>> /\ raw' = <<>> /\ all_dets' = <<>>
  /\ merged' = <<>> /\ result' = None

frame == <<W, H, step, top, left, cur, scheduled, calls, raw, all_dets, merged,
           result>>

\* no run_inference frame, nothing collected, nothing answered yet
Fresh ==
  /\ items = <<>> /\ collection_counts = EmptyDict /\ total_objects = 0
  /\ response = None
  /\ pc = "idle"
  /\ W = 0 /\ H = 0 /\ step = 0 /\ top = 0 /\ left = 0 /\ cur = NoBox
  /\ scheduled = <<>> /\ calls = <<>> /\ raw = <<>> /\ all_dets = <<>>
  /\ merged = <<>> /\ result = None

\* a request arrives at DetectView with any query parameters and one image;
\* the detector reports at most one detection
Init ==
  /\ view = "detect"
  /\ tile \in TileValues
  /\ tile_size \in TileSizes
  /\ overlap \in Overlaps
  /\ nms_iou \in {<<1, 2>>}
  /\ files \in {<<img>> : img \in Images}
  /\ fuel \in {0, 1}
  /\ Fresh
  /\ RegistryIdle

\* a request arrives at either view, with the tiling knobs of a small grid
InitViews ==
  /\ view \in {"detect", "batch"}
  /\ tile \in {StrTile("auto")}
  /\ tile_size \in {0, 2}
  /\ overlap \in {<<0, 1>>}
  /\ nms_iou \in {<<1, 2>>}
  /\ files \in IF view = "detect" THEN {<<img>> : img \in ViewImages}
              ELSE UNION {[1..n -> ViewImages] : n \in 1..MaxFiles}
  /\ fuel \in 0..MaxFuel
  /\ Fresh
  /\ RegistryIdle

\* _nms_classwise alone: any detection list, any threshold
InitNms ==
  /\ view = "detect"
  /\ tile = IntTile(1) /\ tile_size = 1 /\ overlap = <<0, 1>>
  /\ nms_iou \in Thresholds
  /\ files = <<>>
  /\ fuel = 0
  /\ items = <<>> /\ collection_counts = EmptyDict /\ total_objects = 0
  /\ response = None
  /\ pc = "merge"
  /\ W = 1 /\ H = 1 /\ step = 1 /\ top = 1 /\ left = 0 /\ cur = NoBox
  /\ scheduled = <<>> /\ calls = <<>> /\ raw = <<>>
  /\ all_dets \in NmsInputs
  /\ merged = <<>> /\ result = None
  /\ yolo_path = DefaultWeights
  /\ model = Handle(DefaultWeights) /\ model_weights = DefaultWeights
  /\ rows = [pk \in RowIds |-> FALSE]
  /\ saves = [t \in Threads |-> IdleSave]
  /\ returned = None /\ cached_before = None /\ last_true = 0

\* the view calls run_inference on the next image (views.py 111 / 162); the
\* model is loaded or taken from the cache, the image is read and the tiling
\* decided (detector.py 189-248).  The weights are configured and load.
Enter ==
  /\ pc = "idle" /\ files # <<>>
  /\ model # None \/ yolo_path # NoWeights
  /\ model' = Loaded(model, yolo_path)
  /\ model_weights' = LoadedWeights(model, model_weights, yolo_path)
  /\ UNCHANGED <<yolo_path, rows, saves, returned, cached_before, last_true>>
  /\ W' = Head(files)[1] /\ H' = Head(files)[2]
  /\ files' = Tail(files)
  /\ IF TileFlag(tile, Head(files)[1], Head(files)[2], tile_size)
     THEN pc' = "loop" /\ step' = Step(tile_size, overlap)
     ELSE pc' = "single" /\ step' = 0
  /\ top' = 0 /\ left' = 0 /\ cur' = NoBox
  /\ scheduled' = <<>> /\ calls' = <<>> /\ raw' = <<>> /\ all_dets' = <<>>
  /\ merged' = <<>> /\ result' = None
  /\ UNCHANGED <<request, batch, response, fuel>>

\* single pass, lines 237-245: one detector call on the whole image
PredictFull ==
  /\ pc = "single"
  /\ \E out \in DetectorOutputs(W, H, fuel) :
       /\ calls' = Append(calls, [crop |-> FALSE, box |-> <<0, 0, W, H>>, ok |-> TRUE])
       /\ all_dets' = out
       /\ merged' = NmsClasswise(out, nms_iou)
       /\ result' = Package(NmsClasswise(out, nms_iou), W, H)
       /\ fuel' = fuel - Len(out)
  /\ pc' = "returned"
  /\ UNCHANGED <<registry, request, files, batch, response, W, H, step, top, left, cur,
                 scheduled, raw>>

\* the detector raises on the whole-image call: the exception leaves run_inference
PredictFullRaises ==
  /\ pc = "single"
  /\ calls' = Append(calls, [crop |-> FALSE, box |-> <<0, 0, W, H>>, ok |-> FALSE])
  /\ pc' = "raised"
  /\ UNCHANGED <<registry, request, files, batch, response, W, H, step, top, left, cur,
                 scheduled, raw, all_dets, merged, result, fuel>>

\* both range() loops are exhausted (lines 251-252)
LoopDone ==
  /\ pc = "loop" /\ top >= H
  /\ pc' = "merge"
  /\ UNCHANGED <<registry, request, files, batch, response, W, H, step, top, left, cur,
                 scheduled, calls, raw, all_dets, merged, result, fuel>>

\* lines 253-256: an empty tile is skipped
SkipTile ==
  /\ pc = "loop" /\ top < H
  /\ Degenerate(TileBox(left, top, tile_size, W, H))
  /\ top' = NextPos(top, left, step, W)[1]
  /\ left' = NextPos(top, left, step, W)[2]
  /\ UNCHANGED <<registry, request, files, batch, response, pc, W, H, step, cur,
                 scheduled, calls, raw, all_dets, merged, result, fuel>>

\* the tile's bounds are computed and kept for later, the loop goes on
CropTileEager ==
  /\ pc = "loop" /\ top < H
  /\ ~Degenerate(TileBox(left, top, tile_size, W, H))
  /\ cur' = TileBox(left, top, tile_size, W, H)
  /\ scheduled' = Append(scheduled, TileBox(left, top, tile_size, W, H))
  /\ top' = NextPos(top, left, step, W)[1]
  /\ left' = NextPos(top, left, step, W)[2]
  /\ UNCHANGED <<registry, request, files, batch, response, pc, W, H, step,
                 calls, raw, all_dets, merged, result, fuel>>

\* lines 253-257: the tile's bounds are computed and the image cropped
CropTile ==
  /\ pc = "loop" /\ top < H
  /\ ~Degenerate(TileBox(left, top, tile_size, W, H))
  /\ cur' = TileBox(left, top, tile_size, W, H)
  /\ scheduled' = Append(scheduled, TileBox(left, top, tile_size, W, H))
  /\ pc' = "detect"
  /\ UNCHANGED <<registry, request, files, batch, response, W, H, step, top, left,
                 calls, raw, all_dets, merged, result, fuel>>

\* lines 258-264: the detector runs on the crop, its boxes are translated
PredictTile ==
  /\ pc = "detect"
  /\ \E out \in DetectorOutputs(cur[3] - cur[1], cur[4] - cur[2], fuel) :
       /\ calls' = Append(calls, [crop |-> TRUE, box |-> cur, ok |-> TRUE])
       /\ all_dets' = all_dets \o TranslateAll(out, left, top)
       /\ raw' = raw \o [i \in 1..Len(out) |->
                           [det |-> out[i], left |-> left, top |-> top]]
       /\ fuel' = fuel - Len(out)
  /\ top' = NextPos(top, left, step, W)[1]
  /\ left' = NextPos(top, left, step, W)[2]
  /\ pc' = "loop"
  /\ UNCHANGED <<registry, request, files, batch, response, W, H, step, cur, scheduled,
                 merged, result>>

\* the failing tile is skipped and the loop goes on
PredictTileSkips ==
  /\ pc = "detect"
  /\ calls' = Append(calls, [crop |-> TRUE, box |-> cur, ok |-> FALSE])
  /\ top' = NextPos(top, left, step, W)[1]
  /\ left' = NextPos(top, left, step, W)[2]
  /\ pc' = "loop"
  /\ UNCHANGED <<registry, request, files, batch, response, W, H, step, cur,
                 scheduled, raw, all_dets, merged, result, fuel>>

\* the detector raises on a tile: the exception leaves run_inference
PredictTileRaises ==
  /\ pc = "detect"
  /\ calls' = Append(calls, [crop |-> TRUE, box |-> cur, ok |-> FALSE])
  /\ pc' = "raised"
  /\ UNCHANGED <<registry, request, files, batch, response, W, H, step, top, left, cur,
                 scheduled, raw, all_dets, merged, result, fuel>>

\* lines 267-275: NMS across all tiles, then the payload
MergeTiles ==
  /\ pc = "merge"
  /\ merged' = NmsClasswise(all_dets, nms_iou)
  /\ result' = Package(NmsClasswise(all_dets, nms_iou), W, H)
  /\ pc' = "returned"
  /\ UNCHANGED <<registry, request, files, batch, response, W, H, step, top, left, cur,
                 scheduled, calls, raw, all_dets, fuel>>

\* DetectView.post, line 167
DetectRespond ==
  /\ pc = "returned" /\ view = "detect"
  /\ response' = [status |-> 200, body |-> result]
  /\ UNCHANGED files
  /\ pc' = "done"
  /\ NoFrame
  /\ UNCHANGED <<registry, request, batch, fuel>>

\* DetectView.post, lines 168-172
DetectError ==
  /\ pc = "raised" /\ view = "detect"
  /\ response' = [status |-> 500, body |-> [error |-> "Model inference failed"]]
  /\ UNCHANGED files
  /\ pc' = "done"
  /\ NoFrame
  /\ UNCHANGED <<registry, request, batch, fuel>>

\* BatchDetectView.post, lines 115-125
BatchItem ==
  /\ pc = "returned" /\ view = "batch"
  /\ collection_counts' = MergeCounts(collection_counts, result.counts)
  /\ total_objects' = total_objects + result.total
  /\ items' = Append(items, [name |-> Len(items) + 1, image |-> result.image,
                             counts |-> result.counts, total |-> result.total,
                             detections |-> result.detections])
  /\ UNCHANGED files
  /\ pc' = "idle"
  /\ NoFrame
  /\ UNCHANGED <<registry, request, response, fuel>>

\* BatchDetectView.post, lines 126-127
BatchItemError ==
  /\ pc = "raised" /\ view = "batch"
  /\ items' = Append(items, [name |-> Len(items) + 1, error |-> "detector failure"])
  /\ UNCHANGED files
  /\ pc' = "idle"
  /\ NoFrame
  /\ UNCHANGED <<registry, request, collection_counts, total_objects, response, fuel>>

\* BatchDetectView.post, lines 130-139
BatchRespond ==
  /\ pc = "idle" /\ view = "batch" /\ files = <<>>
  /\ response' = [status |-> 200,
                  body |-> [items |-> items,
                            collection |-> [counts |-> collection_counts,
                                            total |-> total_objects]]]
  /\ pc' = "done"
  /\ UNCHANGED <<registry, request, files, batch, frame, fuel>>

\* run_inference
Run ==
  \/ Enter
  \/ PredictFull \/ PredictFullRaises
  \/ LoopDone \/ SkipTile \/ CropTile
  \/ PredictTile \/ PredictTileRaises
  \/ MergeTiles

Next == Run \/ DetectRespond \/ DetectError

NextViews == Next \/ BatchItem \/ BatchItemError \/ BatchRespond

NextNms == MergeTiles \/ DetectRespond

\* one image through DetectView, any parameters
Spec == Init /\ [][Next]_vars

\* both views, batches of several images
SpecViews == InitViews /\ [][NextViews]_vars

\* _nms_classwise on its own inputs
SpecNms == InitNms /\ [][NextNms]_vars


\* ------------------------------------------------------------ registry actions
\* a process that serves no request while the model table is edited
InitModel ==
  /\ view = "detect" /\ tile = StrTile("auto") /\ tile_size = 0
  /\ overlap = <<0, 1>> /\ nms_iou = <<1, 2>>
  /\ files = <<>> /\ fuel = 0
  /\ Fresh
  /\ yolo_path \in {DefaultWeights, NoWeights}
  /\ model = None /\ model_weights = None
  /\ rows \in {t \in [RowIds -> BOOLEAN] : Cardinality(ActiveRows(t)) <= 1}
  /\ saves = [t \in Threads |-> IdleSave]
  /\ returned = None /\ cached_before = None /\ last_true = 0

\* _load_model with a handle in the cache: the handle is returned as it is
LoadModelCached ==
  /\ model # None
  /\ returned' = model
  /\ UNCHANGED <<yolo_path, model, model_weights, rows, saves, cached_before,
                 last_true>>
  /\ UNCHANGED <<request, files, batch, response, pc, frame, fuel>>

\* _load_model with an empty cache: the weights of the settings are loaded
LoadModelLoads ==
  /\ model = None /\ yolo_path # NoWeights
  /\ model' = Loaded(model, yolo_path)
  /\ model_weights' = LoadedWeights(model, model_weights, yolo_path)
  /\ returned' = model'
  /\ UNCHANGED <<yolo_path, rows, saves, cached_before, last_true>>
  /\ UNCHANGED <<request, files, batch, response, pc, frame, fuel>>

\* _load_model raises: no path configured, or YOLO(weights) fails; the cache
\* stays empty
LoadModelRaises ==
  /\ model = None
  /\ returned' = None
  /\ UNCHANGED <<yolo_path, model, model_weights, rows, saves, cached_before,
                 last_true>>
  /\ UNCHANGED <<request, files, batch, response, pc, frame, fuel>>

\* the table goes from rows to t: when the active model is another one
\* afterwards, the handle cached until then is remembered
ActiveModelMoves(t) ==
  LET changed == ActiveWeights(t, yolo_path) # ActiveWeights(rows, yolo_path)
  IN /\ cached_before' = IF changed THEN model ELSE cached_before
     /\ returned' = IF changed THEN None ELSE returned

\* save(), first statement: thread t writes row pk with the is_active of its
\* instance; an inactive instance is done with that
Save(t, pk, a) ==
  /\ saves[t].pc = "idle"
  /\ rows' = [rows EXCEPT ![pk] = a]
  /\ saves' = [saves EXCEPT ![t] =
                 IF a THEN [pc |-> "written", pk |-> pk, is_active |-> a]
                 ELSE IdleSave]
  /\ last_true' = IF a THEN pk ELSE IF last_true = pk THEN 0 ELSE last_true
  /\ ActiveModelMoves(rows')
  /\ UNCHANGED <<yolo_path, model, model_weights>>
  /\ UNCHANGED <<request, files, batch, response, pc, frame, fuel>>

\* an instance is saved, with whatever is_active it holds in memory
SaveModel == \E t \in Threads, pk \in RowIds, a \in BOOLEAN : Save(t, pk, a)

\* the admin action on a selection of rows
MakeActive ==
  \E t \in Threads, qs \in (SUBSET RowIds) \ {{}} : Save(t, First(rows, qs), TRUE)

\* save(), second statement of an active instance: every other row is made
\* inactive
SaveDeactivateOthers ==
  \E t \in Threads :
    /\ saves[t].pc = "written"
    /\ rows' = [pk \in RowIds |-> IF pk = saves[t].pk THEN rows[pk] ELSE FALSE]
    /\ saves' = [saves EXCEPT ![t] = IdleSave]
    /\ ActiveModelMoves(rows')
    /\ UNCHANGED <<yolo_path, model, model_weights, last_true>>
    /\ UNCHANGED <<request, files, batch, response, pc, frame, fuel>>

NextModel ==
  \/ LoadModelCached \/ LoadModelLoads \/ LoadModelRaises
  \/ SaveModel \/ MakeActive \/ SaveDeactivateOthers

\* the detector cache and the model table, edited by two threads
SpecModel == InitModel /\ [][NextModel]_vars

\* ------------------------------------------------------------ properties
\* how often x occurs in the sequence s
Count(s, x) == Cardinality({i \in DOMAIN s : s[i] = x})

\* C1. What _nms_classwise returns is a sub-multiset of its input (each returned
\* detection is an input detection, class_name, confidence and bbox unchanged,
\* no more often than in the input), and no two returned detections of one
\* class have IoU >= iou_th.
C1_NmsSubsetNoOverlap ==
  pc = "returned" =>
    /\ \A k \in DOMAIN merged :
         Count(merged, merged[k]) <= Count(all_dets, merged[k])
    /\ \A k \in DOMAIN merged : \A m \in DOMAIN merged :
         (k # m /\ merged[k].class_name = merged[m].class_name)
           => RatLT(IouXyxy(merged[k].bbox, merged[m].bbox), nms_iou)

\* C1's case: something was suppressed and two detections of one class were kept
C1_Witness ==
  /\ pc = "returned"
  /\ Len(merged) < Len(all_dets)
  /\ \E k \in DOMAIN merged : \E m \in DOMAIN merged :
       /\ k # m /\ merged[k].class_name = merged[m].class_name
       /\ IouXyxy(merged[k].bbox, merged[m].bbox)[1] > 0

\* C2. Every input detection missing from the output has a retained detection
\* of its own class with IoU >= iou_th and confidence >= its own.
C2_SuppressedByStronger ==
  pc = "returned" =>
    \A i \in DOMAIN all_dets :
      Count(merged, all_dets[i]) < Count(all_dets, all_dets[i]) =>
        \E k \in DOMAIN merged :
          /\ merged[k].class_name = all_dets[i].class_name
          /\ RatGE(IouXyxy(merged[k].bbox, all_dets[i].bbox), nms_iou)
          /\ merged[k].confidence >= all_dets[i].confidence

\* C2's case: a detection was suppressed while an overlapping detection of the
\* other class, with higher confidence, left its own class untouched
C2_Witness ==
  /\ pc = "returned"
  /\ \E i \in DOMAIN all_dets : Count(merged, all_dets[i]) = 0
  /\ \E k \in DOMAIN merged : \E m \in DOMAIN merged :
       /\ merged[k].class_name # merged[m].class_name
       /\ merged[k].confidence > merged[m].confidence
       /\ RatGE(IouXyxy(merged[k].bbox, merged[m].bbox), nms_iou)
       /\ nms_iou[1] > 0


\* the request's configuration is one the tile scheduler is specified for
ValidConfig == tile_size >= 1 /\ overlap[1] >= 0 /\ overlap[1] < overlap[2]

\* the crops handed to the detector so far, as boxes
CropBoxes == {calls[i].box : i \in {j \in DOMAIN calls : calls[j].crop}}

\* C3. On the tiled path, with tile_size >= 1 and 0 <= overlap < 1, once the
\* loops are done the crops passed to the detector cover every pixel of
\* [0,W) x [0,H), and none is empty or reaches outside the image.
C3_TilesCoverImage ==
  (pc = "merge" /\ ValidConfig) =>
    /\ \A x \in 0..(W - 1) : \A y \in 0..(H - 1) :
         \E b \in CropBoxes : b[1] <= x /\ x < b[3] /\ b[2] <= y /\ y < b[4]
    /\ \A b \in CropBoxes :
         0 <= b[1] /\ b[1] < b[3] /\ b[3] <= W /\ 0 <= b[2] /\ b[2] < b[4] /\ b[4] <= H
    /\ \A i \in DOMAIN calls : calls[i].crop

\* C3's case: a grid of several overlapping tiles whose last column is clipped
C3_Witness ==
  /\ pc = "merge" /\ ValidConfig
  /\ Len(calls) >= 4
  /\ step < tile_size
  /\ \E b \in CropBoxes : b[3] = W /\ b[3] - b[1] < tile_size

\* the tiled path as the claim words it: forced on, or "auto" on a large image
ForcedOn ==
  tile \in {StrTile("1"), StrTile("true"), StrTile("YES"), IntTile(1)}
AutoMode == tile \in {StrTile("auto"), StrTile("AUTO")}
InFrame == pc \in {"single", "loop", "detect", "merge", "returned", "raised"}

C5_DegenerateRejected ==
  (InFrame /\ step >= 1 /\ (tile_size <= 0 \/ overlap[1] >= overlap[2])) =>
    /\ scheduled = <<>>
    /\ calls = <<>>
    /\ pc \notin {"merge", "returned"}

\* C6. In every result, counts[c] is the number of detections of class c, no
\* count is 0, and total = sum of counts = number of detections.
C6_CountsConsistent ==
  pc = "returned" =>
    /\ DOMAIN result.counts \subseteq Classes
    /\ \A c \in Classes :
         LET n == Cardinality({i \in DOMAIN result.detections :
                                 result.detections[i].class_name = c})
         IN IF n = 0 THEN c \notin DOMAIN result.counts
            ELSE c \in DOMAIN result.counts /\ result.counts[c] = n
    /\ result.total = Get(result.counts, "0") + Get(result.counts, "1")
    /\ result.total = Len(result.detections)

\* C6's case: a tiled result with two detections of one class
C6_Witness ==
  /\ pc = "returned" /\ step >= 1
  /\ \E c \in DOMAIN result.counts : result.counts[c] = 2


\* the fields of a successful image
ResultFields == {"detections", "counts", "total"}

\* what the successful items of a batch add up to, for class c / in total
RECURSIVE SumItemCounts(_, _)
SumItemCounts(its, c) ==
  IF its = <<>> THEN 0
  ELSE (IF "error" \in DOMAIN Head(its) THEN 0 ELSE Get(Head(its).counts, c))
       + SumItemCounts(Tail(its), c)

RECURSIVE SumItemTotals(_)
SumItemTotals(its) ==
  IF its = <<>> THEN 0
  ELSE (IF "error" \in DOMAIN Head(its) THEN 0 ELSE Head(its).total)
       + SumItemTotals(Tail(its))

\* a failed detector call is the last call of its image, and leaves no result
FailureEndsRun ==
  \A i \in DOMAIN calls :
    ~calls[i].ok => (i = Len(calls) /\ pc = "raised" /\ result = None)

\* the batch collection holds what the successful items hold, nothing else
CollectionFromSuccesses ==
  /\ \A k \in DOMAIN items :
       "error" \in DOMAIN items[k] => DOMAIN items[k] \cap ResultFields = {}
  /\ \A c \in Classes : Get(collection_counts, c) = SumItemCounts(items, c)
  /\ DOMAIN collection_counts \subseteq Classes
  /\ total_objects = SumItemTotals(items)

\* the step a view takes when run_inference has raised
FailureReported ==
  pc = "raised" =>
    IF view = "detect"
    THEN /\ response'.status = 500
         /\ "error" \in DOMAIN response'.body
         /\ DOMAIN response'.body \cap ResultFields = {}
    ELSE /\ Len(items') = Len(items) + 1
         /\ SubSeq(items', 1, Len(items)) = items
         /\ "error" \in DOMAIN items'[Len(items')]
         /\ DOMAIN items'[Len(items')] \cap ResultFields = {}
         /\ collection_counts' = collection_counts
         /\ total_objects' = total_objects

\* C7. When the detector raises, run_inference ends at once: the failed call
\* is the image's last and no result exists; the view answers with an error
\* carrying no detections, counts or total, and the batch collection gets
\* nothing from that image.
C7_FailureIsWhole ==
  /\ [](FailureEndsRun /\ CollectionFromSuccesses)
  /\ [][FailureReported]_vars

\* C7's case: the second image of a batch fails on a later tile, after an
\* earlier tile of it and the first image gave detections
C7_Witness ==
  /\ pc = "raised" /\ view = "batch"
  /\ Len(items) = 1 /\ total_objects > 0
  /\ Len(calls) >= 2 /\ Len(all_dets) > 0


\* the tile origin of entry i of all_dets, as float offsets per coordinate
Offset(i) == <<raw[i].left * Unit, raw[i].top * Unit,
               raw[i].left * Unit, raw[i].top * Unit>>

\* entry i of all_dets is the detector's detection moved by its tile's origin
TranslatedOnce(i) ==
  /\ all_dets[i].class_name = raw[i].det.class_name
  /\ all_dets[i].confidence = raw[i].det.confidence
  /\ \A k \in 1..4 : all_dets[i].bbox[k] = FAdd(raw[i].det.bbox[k], Offset(i)[k])
  /\ \E j \in DOMAIN calls :
       calls[j].crop /\ calls[j].box[1] = raw[i].left /\ calls[j].box[2] = raw[i].top

\* C8 as stated: every detection collected on the tiled path is the detector's
\* box plus its tile's origin, class and confidence unchanged, and subtracting
\* the origin gives back the local box exactly.
C8_TranslateRoundTrip ==
  (InFrame /\ step >= 1) =>
    /\ Len(all_dets) = Len(raw)
    /\ \A i \in DOMAIN all_dets :
         /\ TranslatedOnce(i)
         /\ \A k \in 1..4 :
              FSub(all_dets[i].bbox[k], Offset(i)[k]) = raw[i].det.bbox[k]

\* C8, amended: the same translation; subtracting the origin gives back the
\* local coordinate exactly whenever the float sum coordinate + origin needed no
\* rounding.
C8_TranslateOnce ==
  (InFrame /\ step >= 1) =>
    /\ Len(all_dets) = Len(raw)
    /\ \A i \in DOMAIN all_dets :
         /\ TranslatedOnce(i)
         /\ \A k \in 1..4 :
              Representable(FAddExact(raw[i].det.bbox[k], Offset(i)[k])) =>
                FSub(all_dets[i].bbox[k], Offset(i)[k]) = raw[i].det.bbox[k]

\* C8's case: a sub-pixel box from a tile whose origin is off both axes'
\* diagonal reaches the merge, translated without rounding
C8_Witness ==
  /\ pc = "merge"
  /\ \E i \in DOMAIN all_dets :
       /\ raw[i].left > 0 /\ raw[i].left # raw[i].top
       /\ raw[i].det.bbox[1] = 1
       /\ all_dets[i].bbox[1] = 1 + raw[i].left * Unit

\* the crops' starting rows and columns
CropTops == {b[2] : b \in CropBoxes}
CropLefts == {b[1] : b \in CropBoxes}

\* C9 as stated: the grid step is max(1, round(tile_size * (1 - overlap))) and
\* the tiles start at the multiples of it.
C9_StepRounded ==
  (InFrame /\ step >= 1 /\ ValidConfig) =>
    LET s == Max(1, PyRound(tile_size * (overlap[2] - overlap[1]), overlap[2]))
    IN /\ step = s
       /\ pc = "merge" =>
            /\ CropTops = {y \in 0..(H - 1) : y % s = 0}
            /\ CropLefts = {x \in 0..(W - 1) : x % s = 0}

\* C9, amended: the grid step is max(1, floor(tile_size * (1 - overlap))), the
\* product truncated instead of rounded; the tiles start at exactly the
\* multiples of the step in [0,H) and [0,W), one tile per pair.  For 1000x1000,
\* tile_size 640, overlap 0.2 the step is 512.
C9_StepTruncated ==
  (InFrame /\ step >= 1 /\ ValidConfig) =>
    /\ \E s \in 0..tile_size :
         /\ s * overlap[2] <= tile_size * (overlap[2] - overlap[1])
         /\ tile_size * (overlap[2] - overlap[1]) < (s + 1) * overlap[2]
         /\ step = Max(1, s)
    /\ pc = "merge" =>
         /\ CropTops = {y \in 0..(H - 1) : y % step = 0}
         /\ CropLefts = {x \in 0..(W - 1) : x % step = 0}
         /\ Len(calls) = Cardinality(CropTops) * Cardinality(CropLefts)
    /\ Step(640, <<1, 5>>) = 512

\* C9's case: tile_size * (1 - overlap) = 1.5, where round() gives 2 and the
\* code's step is 1, on an image with more than one tile per row
C9_Witness ==
  /\ pc = "merge" /\ ValidConfig
  /\ 2 * tile_size * (overlap[2] - overlap[1]) = 3 * overlap[2]
  /\ step = 1 /\ W >= 3 /\ Cardinality(CropLefts) = W

\* how many tiles the grid of this image has
NumTiles ==
  Cardinality({p \in (0..(H - 1)) \X (0..(W - 1)) :
                 /\ p[1] % step = 0 /\ p[2] % step = 0
                 /\ ~Degenerate(TileBox(p[2], p[1], tile_size, W, H))})

\* C10 as stated: every tile region has been enumerated before the first
\* detector call.
C10_AllTilesBeforeFirstCall ==
  (InFrame /\ step >= 1 /\ (pc = "detect" \/ Len(calls) > 0)) =>
    Len(scheduled) = NumTiles

\* C10, amended: tiles are enumerated one at a time, in row-major order, each
\* tile's bounds computed right before its own detector call and after every
\* earlier tile's call: when a call starts, the tiles enumerated are exactly
\* those already called plus the one at hand.
C10_TilesCroppedLazily ==
  (InFrame /\ step >= 1) =>
    /\ Len(scheduled) = Len(calls) + (IF pc = "detect" THEN 1 ELSE 0)
    /\ \A i \in DOMAIN calls : calls[i].box = scheduled[i]
    /\ pc = "detect" => cur = scheduled[Len(scheduled)]
    /\ \A i \in DOMAIN scheduled : \A j \in DOMAIN scheduled :
         i < j => \/ scheduled[i][2] < scheduled[j][2]
                  \/ /\ scheduled[i][2] = scheduled[j][2]
                     /\ scheduled[i][1] < scheduled[j][1]

\* C10's case: a tile's bounds are computed after earlier detector calls, while
\* tiles remain that have not been enumerated
C10_Witness ==
  /\ pc = "detect" /\ step >= 1
  /\ Len(calls) >= 1
  /\ Len(scheduled) < NumTiles

\* ------------------------------------------------------------ model cache
\* C11: once the active model has changed, the next call of the model loader
\* returns a handle other than the one that was cached for the previous
\* active model.
C11_StaleHandleNotReturned ==
  (returned # None /\ cached_before # None) => returned # cached_before

\* whenever the loader returns a handle, it is the handle of the weights the
\* settings name, whatever the table says is active
ReturnedIsSettingsHandle ==
  returned # None => returned = Handle(yolo_path)

\* ------------------------------------------------------------ single active row
\* no save() is between its two statements
AtRest == \A t \in Threads : saves[t].pc = "idle"

\* once every save() has returned, at most one row is active
AtMostOneActiveAtRest == AtRest => Cardinality(ActiveRows(rows)) <= 1

\* C12: after the saves have completed, at most one row has is_active = True,
\* and the row that was saved last with is_active = True is the active one,
\* also when instances are stale and when two saves run concurrently.
C12_LastSavedActiveIsActive ==
  AtRest =>
    /\ Cardinality(ActiveRows(rows)) <= 1
    /\ last_true # 0 => ActiveRows(rows) = {last_true}

====
